---------------------------- MODULE Spec2Model ----------------------------
(***************************************************************************)
(* The three chart functions of docs/ (simpleLineChart, multipleLineChart, *)
(* simplePieChart) on one host page: the calls, the completion of each     *)
(* call's d3.csv request, and the change events of the three checkboxes.   *)
(*                                                                         *)
(* Numbers computed by d3 are kept exact: a pixel or an angle is a         *)
(* rational [num, den] in lowest terms, an angle is a fraction of a full   *)
(* turn.  The cells of a CSV file are strings of decimal digits.           *)
(***************************************************************************)
EXTENDS Integers, Sequences, FiniteSets, TLC

(* ------------------------------ bounds -------------------------------- *)

\* Longest CSV file (data rows) the input-driven specification draws.
MaxRows == 2
\* Chart function calls on the page in the page-level specification.
MaxCalls == 2
\* The width and height every call passes.
ChartWidth == 120
ChartHeight == 100
\* The margin every call passes (the same on the four sides).
ChartMargin == 5

(* ----------------------- program constants ---------------------------- *)

\* d3.schemeCategory10: ten colours, reused cyclically.
PaletteSize == 10
\* arc = d3.arc().outerRadius(radius - 10)
ArcInset == 10
\* labelArc = d3.arc().outerRadius(radius - 40).innerRadius(radius - 40)
LabelInset == 40

(* ------------------------- exact arithmetic --------------------------- *)

RECURSIVE GCD(_, _)
GCD(a, b) == IF b = 0 THEN a ELSE GCD(b, a % b)

Abs(n) == IF n < 0 THEN -n ELSE n

\* n / d in lowest terms, d # 0.
Rat(n, d) ==
    LET g == GCD(Abs(n), Abs(d))
        s == IF d < 0 THEN -1 ELSE 1
    IN [num |-> (s * n) \div g, den |-> (s * d) \div g]

\* The JavaScript NaN as a computed pixel.
NaNPx == [num |-> 0, den |-> 0]

(* -------------------------- JavaScript values ------------------------- *)

\* A value is a string (of digit characters 0..9), a number, NaN or
\* undefined.
Str(s) == [t |-> "str", s |-> s, n |-> 0]
Num(n) == [t |-> "num", s |-> <<>>, n |-> n]
NaN == [t |-> "nan", s |-> <<>>, n |-> 0]
Undefined == [t |-> "undef", s |-> <<>>, n |-> 0]

RECURSIVE ParseDigits(_)
ParseDigits(s) ==
    IF s = <<>> THEN 0
    ELSE ParseDigits(SubSeq(s, 1, Len(s) - 1)) * 10 + s[Len(s)]

\* The unary plus: +v.  The empty string converts to 0.
ToNumber(v) ==
    CASE v.t = "num" -> v
      [] v.t = "str" -> Num(ParseDigits(v.s))
      [] OTHER -> NaN

\* a < b on two strings: by code units, a proper prefix first.
RECURSIVE StrLess(_, _)
StrLess(a, b) ==
    IF b = <<>> THEN FALSE
    ELSE IF a = <<>> THEN TRUE
    ELSE IF a[1] # b[1] THEN a[1] < b[1]
    ELSE StrLess(Tail(a), Tail(b))

\* The relational a < b: two strings compare as strings, anything else as
\* numbers, and a comparison with NaN or undefined is false.
JsLess(a, b) ==
    IF a.t = "str" /\ b.t = "str" THEN StrLess(a.s, b.s)
    ELSE LET x == ToNumber(a)
             y == ToNumber(b)
         IN x.t = "num" /\ y.t = "num" /\ x.n < y.n

\* value >= value, as d3.max and d3.extent test it: false of NaN only.
JsComparable(v) ==
    IF v.t = "str" THEN TRUE ELSE ToNumber(v).t = "num"

(* ------------------------------ d3-array ------------------------------ *)

\* d3.max(values): the greatest by <, undefined of no comparable value.
RECURSIVE D3Max(_)
D3Max(vals) ==
    IF vals = <<>> THEN Undefined
    ELSE LET m == D3Max(SubSeq(vals, 1, Len(vals) - 1))
             v == vals[Len(vals)]
         IN IF v.t # "undef"
               /\ (JsLess(m, v) \/ (m.t = "undef" /\ JsComparable(v)))
            THEN v ELSE m

\* The first component of d3.extent(values).
RECURSIVE D3Min(_)
D3Min(vals) ==
    IF vals = <<>> THEN Undefined
    ELSE LET m == D3Min(SubSeq(vals, 1, Len(vals) - 1))
             v == vals[Len(vals)]
         IN IF v.t # "undef"
               /\ (JsLess(v, m) \/ (m.t = "undef" /\ JsComparable(v)))
            THEN v ELSE m

D3Extent(vals) == <<D3Min(vals), D3Max(vals)>>

(* ------------------------------ d3-scale ------------------------------ *)

\* d3.scaleLinear().domain(domain).range(range): the domain is coerced to
\* numbers as it is set.
ScaleLinear(domain, range) ==
    [d0 |-> ToNumber(domain[1]), d1 |-> ToNumber(domain[2]),
     r0 |-> range[1], r1 |-> range[2]]

\* The position t of x in a domain of zero width: the d3-scale of d3 4
\* answers 0, that of d3 7 answers 1/2.
DegenerateT(ver) == IF ver >= 7 THEN Rat(1, 2) ELSE Rat(0, 1)

\* ScaleApply with the two ends of the range taken for each other.
ScaleApplyFlipped(sc, v, ver) ==
    LET x == ToNumber(v)
    IN IF x.t # "num" \/ sc.d0.t # "num" \/ sc.d1.t # "num" THEN NaNPx
       ELSE LET t == IF sc.d1.n = sc.d0.n THEN DegenerateT(ver)
                     ELSE Rat(x.n - sc.d0.n, sc.d1.n - sc.d0.n)
            IN Rat(sc.r1 * (t.den - t.num) + sc.r0 * t.num, t.den)

\* scale(v): v is coerced to a number, then r0 * (1 - t) + r1 * t with
\* t = (x - d0) / (d1 - d0).
ScaleApply(sc, v, ver) ==
    LET x == ToNumber(v)
    IN IF x.t # "num" \/ sc.d0.t # "num" \/ sc.d1.t # "num" THEN NaNPx
       ELSE LET t == IF sc.d1.n = sc.d0.n THEN DegenerateT(ver)
                     ELSE Rat(x.n - sc.d0.n, sc.d1.n - sc.d0.n)
            IN Rat(sc.r0 * (t.den - t.num) + sc.r1 * t.num, t.den)

(* ------------------------------ d3-shape ------------------------------ *)

\* LineGenerator walking data from its last datum to its first.
LineGeneratorReversed(data, xs, ys, xf, yf, ver) ==
    [i \in 1..Len(data) |->
        [x |-> ScaleApply(xs, data[Len(data) + 1 - i][xf], ver),
         y |-> ScaleApply(ys, data[Len(data) + 1 - i][yf], ver)]]

\* d3.line().x(d => xs(d[xf])).y(d => ys(d[yf])) of data: one point per
\* datum, in the order of data; no datum gives null (here the empty
\* sequence).
LineGenerator(data, xs, ys, xf, yf, ver) ==
    [i \in 1..Len(data) |->
        [x |-> ScaleApply(xs, data[i][xf], ver),
         y |-> ScaleApply(ys, data[i][yf], ver)]]

\* +value(d): the value d3.pie gives datum d (value = d => d.amount).
PieValue(d) == ToNumber(d["amount"])

\* v > 0 ? v : 0, the part of a value that takes room on the circle.
PiePart(v) == IF v.t = "num" /\ v.n > 0 THEN v.n ELSE 0

\* PieSum leaving the last datum out of the sum.
RECURSIVE PieSumOffByOne(_)
PieSumOffByOne(data) ==
    IF Len(data) <= 1 THEN 0
    ELSE PieSumOffByOne(SubSeq(data, 1, Len(data) - 1))
         + PiePart(PieValue(data[Len(data) - 1]))

RECURSIVE PieSum(_)
PieSum(data) ==
    IF data = <<>> THEN 0
    ELSE PieSum(SubSeq(data, 1, Len(data) - 1))
         + PiePart(PieValue(data[Len(data)]))

\* PieBefore with sortValues taken as ascending.
PieBeforeAscending(data, i, j) ==
    LET vi == PieValue(data[i])
        vj == PieValue(data[j])
    IN JsLess(vi, vj) \/ (~JsLess(vj, vi) /\ i < j)

\* d3.pie sorts the indices with sortValues = descending value (the sort
\* is stable): whether datum i is placed before datum j.
PieBefore(data, i, j) ==
    LET vi == PieValue(data[i])
        vj == PieValue(data[j])
    IN JsLess(vj, vi) \/ (~JsLess(vi, vj) /\ i < j)

RECURSIVE SumParts(_, _)
SumParts(data, idx) ==
    IF idx = {} THEN 0
    ELSE LET i == CHOOSE i \in idx : TRUE
         IN PiePart(PieValue(data[i])) + SumParts(data, idx \ {i})

\* pie(data): the arcs, stored in the order of data.  Angles are
\* fractions of the full turn [startAngle 0, endAngle tau]; k = sum ?
\* tau / sum : 0.
Pie(data) ==
    LET sum == PieSum(data)
        before(j) == {i \in 1..Len(data) : i # j /\ PieBefore(data, i, j)}
        ang(n) == IF sum = 0 THEN Rat(0, 1) ELSE Rat(n, sum)
    IN [j \in 1..Len(data) |->
          LET a0 == SumParts(data, before(j))
          IN [data |-> data[j],
              index |-> Cardinality(before(j)),
              value |-> PieValue(data[j]),
              startAngle |-> ang(a0),
              endAngle |-> ang(a0 + PiePart(PieValue(data[j])))]]

\* color = d3.scaleOrdinal(d3.schemeCategory10); color(key) after color
\* was called with the week of every datum in the order of data: an unseen
\* key takes the next colour of the palette.
Color(data, key) ==
    LET first == CHOOSE i \in 1..Len(data) :
                    /\ data[i]["week"] = key
                    /\ \A h \in 1..(i - 1) : data[h]["week"] # key
    IN Cardinality({data[h]["week"] : h \in 1..(first - 1)}) % PaletteSize

(* ------------------------------ the page ------------------------------ *)

VARIABLES
    d3version,  \* the d3 the page loads: 4 (d3-request) or 7 (d3-fetch)
    csv,        \* the CSV files the server holds, by location
    checked,    \* checked of #checkbox-amount1, -amount2, -amount3
    listeners,  \* the change listeners of each checkbox, in order added
    charts,     \* the chart function calls so far, each with its closure
                \* (data, scales) and the subtree of its svg
    mounts,     \* the svg children of each mount point, by call
    legend      \* the div children of the page's first .legend element

vars == <<d3version, csv, checked, listeners, charts, mounts, legend>>

Versions == {4, 7}

SimpleCsv == "data/simple-line-chart.csv"
MultiCsv == "data/line-chart-multiple-lines.csv"

\* The elements chartLocation may name.
Mounts == {"#chart1", "#chart2"}

\* The three series of the multiple line chart, with their checkboxes.
SeriesKeys == <<"amount1", "amount2", "amount3">>
Series == {SeriesKeys[n] : n \in 1..3}
SeriesColor == [amount1 |-> "blue", amount2 |-> "red", amount3 |-> "green"]

MultiHeader == <<"week", "amount1", "amount2", "amount3">>

Range(f) == {f[x] : x \in DOMAIN f}

\* A parsed row: a string under each column name of the header.
RowsOver(header, cells) == [Range(header) -> {Str(c) : c \in cells}]

\* The sequences of at most n elements of S.
SeqsUpTo(S, n) == UNION {[1..m -> S] : m \in 0..n}

\* obj[key] = val
Put(obj, key, val) ==
    [c \in DOMAIN obj \cup {key} |-> IF c = key THEN val ELSE obj[c]]

NoScale == ScaleLinear(<<Undefined, Undefined>>, <<0, 0>>)
NoAxis == [present |-> FALSE, scale |-> NoScale, ticks |-> 0]

\* A <path> element: display "" is no inline display (shown), d the points
\* of its path data (<<>>: no d attribute).
Path(key, stroke) ==
    [key |-> key, class |-> "line", fill |-> "none", stroke |-> stroke,
     display |-> "", d |-> <<>>]

\* d3.select(chartLocation).append("svg") ... .append("g"): what each
\* chart function does before it calls d3.csv.  The svg takes the size
\* of the chart with its margins, its g is translated.
Container(kind, width, height, margin) ==
    [width |-> width + margin.left + margin.right,
     height |-> height + margin.top + margin.bottom,
     transform |-> IF kind = "pie"
                   THEN <<Rat(width, 2), Rat(height, 2)>>
                   ELSE <<Rat(margin.left, 1), Rat(margin.top, 1)>>]

\* A call as it stands when the chart function returns or throws.
\* With d3-request d3.csv(source) without a callback sends nothing and has
\* no then: multipleLineChart and simplePieChart throw there ("aborted");
\* d3.csv(source, callback) sends the request and has no catch:
\* simpleLineChart throws with its request pending.
NewChart(kind, source, xl, yl, loc, dx, dy, width, height, margin, ver) ==
    [kind |-> kind, source |-> source, xAxisLabel |-> xl, yAxisLabel |-> yl,
     chartLocation |-> loc,
     displayXAxisPlotting |-> dx, displayYAxisPlotting |-> dy,
     width |-> width, height |-> height,
     radius |-> Rat(IF width < height THEN width ELSE height, 2),
     status |-> IF ver = 4 /\ kind # "simple" THEN "aborted" ELSE "pending",
     threw |-> (ver = 4),
     error |-> "none",
     data |-> <<>>,
     xScale |-> NoScale, yScale |-> NoScale,
     svg |-> Container(kind, width, height, margin),
     xAxis |-> NoAxis, yAxis |-> NoAxis,
     paths |-> <<>>,
     arcs |-> <<>>]

TheMargin ==
    [top |-> ChartMargin, right |-> ChartMargin,
     bottom |-> ChartMargin, left |-> ChartMargin]

\* The labels a call passes name columns of its file: any two of them,
\* or (page) the first column as x and the second as y.
Labels(header, wide) ==
    IF wide THEN Range(header) \X Range(header)
    ELSE {<<header[1], header[2]>>}

\* displayXAxisPlotting and displayYAxisPlotting: any two booleans, or
\* (page) both axes or none.
Flags(wide) ==
    IF wide THEN BOOLEAN \X BOOLEAN ELSE {<<TRUE, TRUE>>, <<FALSE, FALSE>>}

\* chartLocation: either mount point of the page; the only call of a page
\* of one call takes the first.
Locations(wide) == IF wide THEN {"#chart1"} ELSE Mounts

\* The calls the script of the page makes: one, or (page) MaxCalls.
Calls(wide) == IF wide THEN 1 ELSE MaxCalls

Attach(wide, kind, source, xl, yl, loc, dx, dy) ==
    /\ Len(charts) < Calls(wide)
    /\ charts' = Append(charts,
          NewChart(kind, source, xl, yl, loc, dx, dy,
                   ChartWidth, ChartHeight, TheMargin, d3version))
    /\ mounts' = [mounts EXCEPT ![loc] = Append(@, Len(charts) + 1)]
    /\ UNCHANGED <<d3version, csv, checked, listeners, legend>>

\* The page calls simpleLineChart(source, xAxisLabel, yAxisLabel,
\* chartLocation, width, height, margin, displayXAxisPlotting,
\* displayYAxisPlotting) for a file the server holds.
simpleLineChart(wide) ==
    /\ SimpleCsv \in DOMAIN csv
    /\ \E loc \in Locations(wide), f \in Flags(wide) :
       \E l \in Labels(csv[SimpleCsv].header, wide) :
          Attach(wide, "simple", SimpleCsv, l[1], l[2], loc, f[1], f[2])

\* The page calls multipleLineChart(source, chartLocation, width, height,
\* margin).
multipleLineChart(wide) ==
    /\ MultiCsv \in DOMAIN csv
    /\ \E loc \in Locations(wide) :
          Attach(wide, "multi", MultiCsv, "week", "", loc, FALSE, FALSE)

\* The page calls simplePieChart(source, xAxisLabel, yAxisLabel,
\* chartLocation, width, height, margin).
simplePieChart(wide) ==
    /\ SimpleCsv \in DOMAIN csv
    /\ \E loc \in Locations(wide) :
       \E l \in Labels(csv[SimpleCsv].header, wide) :
          Attach(wide, "pie", SimpleCsv, l[1], l[2], loc, FALSE, FALSE)

(* ---------------------------- the handlers ---------------------------- *)

\* data.forEach(d => { d.week = +d[xAxisLabel]; d.amount = +d[yAxisLabel] })
\* The second assignment reads the record the first one has written.
CoerceLabels(d, xl, yl) ==
    LET d1 == Put(d, "week", ToNumber(d[xl]))
    IN Put(d1, "amount", ToNumber(d1[yl]))

\* d.week = +d.week; d.amount1 = +d.amount1; ... of multipleLineChart.
CoerceMulti(d) ==
    [c \in DOMAIN d |-> IF c \in Range(MultiHeader) THEN ToNumber(d[c]) ELSE d[c]]

Column(data, f) == [i \in 1..Len(data) |-> data[i][f]]

\* Math.max(d.amount1, d.amount2, d.amount3)
MathMax3(d) ==
    LET a == ToNumber(d["amount1"])
        b == ToNumber(d["amount2"])
        c == ToNumber(d["amount3"])
    IN IF a.t # "num" \/ b.t # "num" \/ c.t # "num" THEN NaN
       ELSE Num(IF a.n >= b.n /\ a.n >= c.n THEN a.n
                ELSE IF b.n >= c.n THEN b.n ELSE c.n)

Axis(scale, ticks) == [present |-> TRUE, scale |-> scale, ticks |-> ticks]

Pending(i) == i \in 1..Len(charts) /\ charts[i].status = "pending"

Rows(c) == csv[c.source].rows

\* The callback of simpleLineChart, run by d3-request with the parsed rows
\* (a callback of one parameter is given the data alone).
SimpleLoaded(c, rows, ver) ==
    LET data == [i \in 1..Len(rows) |->
                    CoerceLabels(rows[i], c.xAxisLabel, c.yAxisLabel)]
        xScale == ScaleLinear(D3Extent(Column(data, c.xAxisLabel)),
                              <<0, c.width>>)
        yScale == ScaleLinear(<<Num(0), D3Max(Column(data, c.yAxisLabel))>>,
                              <<c.height, 0>>)
        line == LineGenerator(data, xScale, yScale,
                              c.xAxisLabel, c.yAxisLabel, ver)
    IN [c EXCEPT
          !.status = "done",
          !.data = data,
          !.xScale = xScale,
          !.yScale = yScale,
          !.paths = <<[Path("line", "black") EXCEPT !.d = line]>>,
          !.xAxis = IF c.displayXAxisPlotting
                    THEN Axis(xScale, Len(data)) ELSE NoAxis,
          !.yAxis = IF c.displayYAxisPlotting
                    THEN Axis(yScale, 0) ELSE NoAxis]

SimpleCallback(i) ==
    /\ Pending(i)
    /\ charts[i].kind = "simple"
    /\ d3version = 4
    /\ charts' = [charts EXCEPT ![i] = SimpleLoaded(@, Rows(@), d3version)]
    /\ UNCHANGED <<d3version, csv, checked, listeners, mounts, legend>>

\* With d3-fetch the function simpleLineChart gives d3.csv is the row
\* accessor: it is called with each parsed row, data.forEach is not a
\* function, the promise is rejected and the catch logs.  A file of no
\* row resolves to an empty array nobody reads.
SimpleRowAccessor(i) ==
    /\ Pending(i)
    /\ charts[i].kind = "simple"
    /\ d3version # 4
    /\ charts' = [charts EXCEPT ![i] =
          IF Rows(@) = <<>> THEN [@ EXCEPT !.status = "ignored"]
          ELSE [@ EXCEPT !.status = "rejected", !.error = "logged"]]
    /\ UNCHANGED <<d3version, csv, checked, listeners, mounts, legend>>

\* LoadError putting a message in the svg of the call, beside logging.
LoadErrorShowsMessage(i) ==
    /\ Pending(i)
    /\ charts' = [charts EXCEPT ![i] =
          [@ EXCEPT !.status = "failed",
                    !.error = IF d3version = 4 THEN "uncaught" ELSE "logged",
                    !.paths = <<Path("message", "red")>>]]
    /\ UNCHANGED <<d3version, csv, checked, listeners, mounts, legend>>

\* The data load fails.  d3-fetch rejects and the catch of the call logs;
\* d3-request calls the callback of simpleLineChart with null, whose
\* data.forEach throws with nothing to catch it.
LoadError(i) ==
    /\ Pending(i)
    /\ charts' = [charts EXCEPT ![i] =
          [@ EXCEPT !.status = "failed",
                    !.error = IF d3version = 4 THEN "uncaught" ELSE "logged"]]
    /\ UNCHANGED <<d3version, csv, checked, listeners, mounts, legend>>

\* updateLines that hides the unselected series and leaves the display
\* of the selected ones as it is.
updateLinesStale(c, chk, ver) ==
    [p \in 1..Len(c.paths) |->
        LET key == c.paths[p].key
        IN IF chk[key]
           THEN [c.paths[p] EXCEPT
                   !.d = LineGenerator(
                            [i \in 1..Len(c.data) |->
                                [week |-> c.data[i]["week"],
                                 value |-> c.data[i][key]]],
                            c.xScale, c.yScale, "week", "value", ver),
                   !.stroke = SeriesColor[key]]
           ELSE [c.paths[p] EXCEPT !.display = "none"]]

\* updateLines that extends the path data of a selected series with the
\* new points instead of replacing it.
updateLinesAppending(c, chk, ver) ==
    [p \in 1..Len(c.paths) |->
        LET key == c.paths[p].key
        IN IF chk[key]
           THEN [c.paths[p] EXCEPT
                   !.display = "",
                   !.d = @ \o LineGenerator(
                            [i \in 1..Len(c.data) |->
                                [week |-> c.data[i]["week"],
                                 value |-> c.data[i][key]]],
                            c.xScale, c.yScale, "week", "value", ver),
                   !.stroke = SeriesColor[key]]
           ELSE [c.paths[p] EXCEPT !.display = "none"]]

\* updateLines() in the closure of call c, with the checkboxes as chk:
\* every path is shown or hidden, and each selected one gets its datum,
\* its d and its stroke again.
updateLines(c, chk, ver) ==
    [p \in 1..Len(c.paths) |->
        LET key == c.paths[p].key
        IN IF chk[key]
           THEN [c.paths[p] EXCEPT
                   !.display = "",
                   !.d = LineGenerator(
                            [i \in 1..Len(c.data) |->
                                [week |-> c.data[i]["week"],
                                 value |-> c.data[i][key]]],
                            c.xScale, c.yScale, "week", "value", ver),
                   !.stroke = SeriesColor[key]]
           ELSE [c.paths[p] EXCEPT !.display = "none"]]

\* A load that would build the y scale from the checked series alone.
MultiLoadedCheckedOnly(c, rows, chk, ver) ==
    LET data == [i \in 1..Len(rows) |-> CoerceMulti(rows[i])]
        shown == {data[i][k].n : i \in 1..Len(data), k \in {h \in Series : chk[h]}}
        top == IF shown = {} THEN Undefined
               ELSE Num(CHOOSE m \in shown : \A v \in shown : v <= m)
        x == ScaleLinear(D3Extent(Column(data, "week")), <<0, c.width>>)
        y == ScaleLinear(<<Num(0), top>>, <<c.height, 0>>)
        drawn == [c EXCEPT
                    !.status = "done",
                    !.data = data,
                    !.xScale = x,
                    !.yScale = y,
                    !.xAxis = Axis(x, Len(data)),
                    !.yAxis = Axis(y, 0),
                    !.paths = [n \in 1..3 |->
                        Path(SeriesKeys[n], SeriesColor[SeriesKeys[n]])]]
    IN [drawn EXCEPT !.paths = updateLines(drawn, chk, ver)]

\* The then of multipleLineChart up to the first updateLines().
MultiLoaded(c, rows, chk, ver) ==
    LET data == [i \in 1..Len(rows) |-> CoerceMulti(rows[i])]
        x == ScaleLinear(D3Extent(Column(data, "week")), <<0, c.width>>)
        y == ScaleLinear(
                <<Num(0), D3Max([i \in 1..Len(data) |-> MathMax3(data[i])])>>,
                <<c.height, 0>>)
        drawn == [c EXCEPT
                    !.status = "done",
                    !.data = data,
                    !.xScale = x,
                    !.yScale = y,
                    !.xAxis = Axis(x, Len(data)),
                    !.yAxis = Axis(y, 0),
                    !.paths = [n \in 1..3 |->
                        Path(SeriesKeys[n], SeriesColor[SeriesKeys[n]])]]
    IN [drawn EXCEPT !.paths = updateLines(drawn, chk, ver)]

\* d3.csv(source).then(...) of multipleLineChart: the whole callback, the
\* three addEventListener calls included.
MultiThen(i) ==
    /\ Pending(i)
    /\ charts[i].kind = "multi"
    /\ charts' = [charts EXCEPT ![i] =
                     MultiLoaded(@, Rows(@), checked, d3version)]
    /\ listeners' = [k \in Series |-> Append(listeners[k], i)]
    /\ UNCHANGED <<d3version, csv, checked, mounts, legend>>

\* A change event of #checkbox-<k>: the box flips, then its listeners run
\* in the order they were added.
RECURSIVE Dispatch(_, _, _, _)
Dispatch(cs, ls, chk, ver) ==
    IF ls = <<>> THEN cs
    ELSE Dispatch(
            [cs EXCEPT ![Head(ls)].paths = updateLines(cs[Head(ls)], chk, ver)],
            Tail(ls), chk, ver)

\* The change events are taken from the first multipleLineChart call on:
\* the call reads no checkbox, and every combination of the three boxes
\* is reachable while its request is pending.
Change(k) ==
    /\ \E i \in 1..Len(charts) : charts[i].kind = "multi"
    /\ checked' = [checked EXCEPT ![k] = ~@]
    /\ charts' = Dispatch(charts, listeners[k], checked', d3version)
    /\ UNCHANGED <<d3version, csv, listeners, mounts, legend>>

\* One g.arc of the pie with its path and its text.
ArcGroup(a, data, radius) ==
    [data |-> a.data, index |-> a.index, value |-> a.value,
     startAngle |-> a.startAngle, endAngle |-> a.endAngle,
     outerRadius |-> Rat(radius.num - ArcInset * radius.den, radius.den),
     labelRadius |-> Rat(radius.num - LabelInset * radius.den, radius.den),
     fill |-> Color(data, a.data["week"]),
     text |-> <<a.data["week"], a.data["amount"]>>]

PieLoaded(c, rows) ==
    LET data == [i \in 1..Len(rows) |->
                    CoerceLabels(rows[i], c.xAxisLabel, c.yAxisLabel)]
        arcs == Pie(data)
    IN [c EXCEPT
          !.status = "done",
          !.data = data,
          !.arcs = [j \in 1..Len(arcs) |-> ArcGroup(arcs[j], data, c.radius)]]

\* The div simplePieChart appends to d3.select(".legend") for datum d.
LegendEntry(i, data, d) ==
    [by |-> i, color |-> Color(data, d["week"]),
     text |-> <<d["week"], d["amount"]>>]

\* PieThen without the legend.
PieThenNoLegend(i) ==
    /\ Pending(i)
    /\ charts[i].kind = "pie"
    /\ charts' = [charts EXCEPT ![i] = PieLoaded(@, Rows(@))]
    /\ UNCHANGED <<d3version, csv, checked, listeners, mounts, legend>>

\* d3.csv(source).then(...) of simplePieChart: the arcs in the svg of the
\* call, the legend in the first .legend element of the document.
PieThen(i) ==
    /\ Pending(i)
    /\ charts[i].kind = "pie"
    /\ charts' = [charts EXCEPT ![i] = PieLoaded(@, Rows(@))]
    /\ legend' = legend \o
          [j \in 1..Len(charts'[i].data) |->
              LegendEntry(i, charts'[i].data, charts'[i].data[j])]
    /\ UNCHANGED <<d3version, csv, checked, listeners, mounts>>

(* --------------------------- specifications --------------------------- *)

Row2(header, a, b) == (header[1] :> Str(a)) @@ (header[2] :> Str(b))

\* docs/data as the README and the spec describe it.
DefaultCsv ==
    (SimpleCsv :>
        [header |-> <<"week", "amount">>,
         rows |-> <<Row2(<<"week", "amount">>, <<1>>, <<1, 0>>),
                    Row2(<<"week", "amount">>, <<2>>, <<3, 0>>),
                    Row2(<<"week", "amount">>, <<3>>, <<2, 0>>)>>])
    @@
    (MultiCsv :>
        [header |-> MultiHeader,
         rows |-> <<[week |-> Str(<<1>>), amount1 |-> Str(<<5>>),
                     amount2 |-> Str(<<1, 0>>), amount3 |-> Str(<<2>>)],
                    [week |-> Str(<<2>>), amount1 |-> Str(<<7>>),
                     amount2 |-> Str(<<3>>), amount3 |-> Str(<<9>>)]>>])

InitPage ==
    /\ d3version \in Versions
    /\ checked = [k \in Series |-> TRUE]
    /\ listeners = [k \in Series |-> <<>>]
    /\ charts = <<>>
    /\ mounts = [m \in Mounts |-> <<>>]
    /\ legend = <<>>

\* The page of the starterkit: its script makes MaxCalls calls.
Init ==
    /\ InitPage
    /\ csv = DefaultCsv

Handlers ==
    \/ \E i \in 1..Len(charts) : SimpleCallback(i)
    \/ \E i \in 1..Len(charts) : SimpleRowAccessor(i)
    \/ \E i \in 1..Len(charts) : MultiThen(i)
    \/ \E i \in 1..Len(charts) : PieThen(i)
    \/ \E i \in 1..Len(charts) : LoadError(i)
    \/ \E k \in Series : Change(k)

Next ==
    \/ simpleLineChart(FALSE)
    \/ multipleLineChart(FALSE)
    \/ simplePieChart(FALSE)
    \/ Handlers

Spec == Init /\ [][Next]_vars

\* The cells the drawn files are made of: "0", "9" and "10" ("9" < "10"
\* as numbers, "10" < "9" as strings).
Cells == {<<0>>, <<9>>, <<1, 0>>}
MultiWeeks == {<<1>>, <<2>>}
MultiCells == {<<0>>, <<1, 0>>}

SimpleHeaders == {<<"week", "amount">>, <<"day", "qty">>}

\* Every two-column file of at most MaxRows rows over Cells.
SimpleFiles ==
    UNION {{[header |-> h, rows |-> r] :
                r \in SeqsUpTo(RowsOver(h, Cells), MaxRows)} :
           h \in SimpleHeaders}

MultiRows ==
    {[week |-> Str(w), amount1 |-> Str(a), amount2 |-> Str(b),
      amount3 |-> Str(c)] :
        w \in MultiWeeks, a \in MultiCells, b \in MultiCells, c \in MultiCells}

MultiFiles ==
    {[header |-> MultiHeader, rows |-> r] : r \in SeqsUpTo(MultiRows, MaxRows)}

\* One call, with any labels and flags, on a page whose server holds one
\* of the drawn files.
InitData ==
    /\ InitPage
    /\ csv \in {DefaultCsv}
               \cup {(SimpleCsv :> f) : f \in SimpleFiles}
               \cup {(MultiCsv :> f) : f \in MultiFiles}

NextData ==
    \/ simpleLineChart(TRUE)
    \/ multipleLineChart(TRUE)
    \/ simplePieChart(TRUE)
    \/ Handlers

SpecData == InitData /\ [][NextData]_vars

(* ------------------------------- claims ------------------------------- *)

ChartIds == 1..Len(charts)

Is(i, kind, status) == charts[i].kind = kind /\ charts[i].status = status

\* Whether call i has an svg among the children of the element m names.
InMount(i, m) == \E n \in 1..Len(mounts[m]) : mounts[m][n] = i

\* The div elements call i has appended to the .legend element.
LegendOf(i) == SelectSeq(legend, LAMBDA e : e.by = i)

\* Whether the svg of call i holds nothing but its g: no axis, no path, no
\* arc, and the call has added no legend entry and no listener.
Bare(i) ==
    /\ ~charts[i].xAxis.present
    /\ ~charts[i].yAxis.present
    /\ charts[i].paths = <<>>
    /\ charts[i].arcs = <<>>
    /\ LegendOf(i) = <<>>
    /\ \A k \in Series : \A n \in 1..Len(listeners[k]) : listeners[k][n] # i

\* C1: once the data load of a multipleLineChart call has completed, each
\* of its three series amount1, amount2, amount3 is displayed if and only
\* if its checkbox is checked now, whatever change events came before or
\* after the load; the display of a series is "" (shown) or "none".
C1_VisibleIffChecked ==
    \A i \in ChartIds :
        Is(i, "multi", "done") =>
            /\ Len(charts[i].paths) = 3
            /\ \A n \in 1..3 :
                  LET p == charts[i].paths[n]
                  IN /\ p.key = SeriesKeys[n]
                     /\ p.display \in {"", "none"}
                     /\ (p.display = "") <=> checked[p.key]

\* A loaded multiple line chart with amount1 shown and amount2 hidden,
\* beside a call whose load has not completed.
C1_Witness ==
    \E i \in ChartIds, j \in ChartIds :
        /\ Is(i, "multi", "done")
        /\ charts[i].paths[1].display = ""
        /\ charts[i].paths[2].display = "none"
        /\ Is(j, "multi", "pending")
        /\ ~checked["amount2"]

\* C2: the path data a series of a loaded multipleLineChart has been given
\* never changes afterwards: it is kept while the series is hidden and is
\* the same again when the series is shown again, whatever change events
\* of the other checkboxes come in between.
C2_PathDataRestored ==
    [][\A i \in ChartIds :
          Is(i, "multi", "done") =>
             \A n \in 1..3 :
                charts[i].paths[n].d # <<>> =>
                   charts'[i].paths[n].d = charts[i].paths[n].d]_vars

\* A series that was drawn and then unchecked (hidden, its path data
\* kept) while another series is shown.
C2_Witness ==
    \E i \in ChartIds :
        /\ Is(i, "multi", "done")
        /\ charts[i].paths[2].display = "none"
        /\ Len(charts[i].paths[2].d) = 2
        /\ charts[i].paths[1].display = ""
        /\ Len(charts[i].paths[1].d) = 2
        /\ charts[i].paths[1].d # charts[i].paths[2].d

C4_NothingAttachedWhilePending ==
    \A i \in ChartIds :
        charts[i].status = "pending" => ~InMount(i, charts[i].chartLocation)

\* What the completed callback of call i has attached, all of it.
Complete(i) ==
    LET c == charts[i]
    IN CASE c.kind = "multi" ->
              /\ c.xAxis.present
              /\ c.yAxis.present
              /\ Len(c.paths) = 3
              /\ \A k \in Series :
                    \E n \in 1..Len(listeners[k]) : listeners[k][n] = i
         [] c.kind = "simple" ->
              /\ Len(c.paths) = 1
              /\ c.xAxis.present = c.displayXAxisPlotting
              /\ c.yAxis.present = c.displayYAxisPlotting
         [] OTHER ->
              /\ Len(c.arcs) = Len(csv[c.source].rows)
              /\ Len(LegendOf(i)) = Len(csv[c.source].rows)

\* C4 amended: from the call on the mount point holds the svg of the call,
\* and until the data load has completed that svg holds only its g; the
\* step that completes the load attaches everything else at once (axes,
\* paths or arcs, legend entries, listeners), so no state shows a part of
\* it.
C4_BareUntilLoadedThenComplete ==
    \A i \in ChartIds :
        /\ InMount(i, charts[i].chartLocation)
        /\ IF charts[i].status = "done" THEN Complete(i) ELSE Bare(i)

\* A loaded multiple line chart beside a call still pending.
C4_Witness ==
    \E i \in ChartIds, j \in ChartIds :
        /\ Is(i, "multi", "done")
        /\ Complete(i)
        /\ charts[j].status = "pending"
        /\ Bare(j)

\* C5 as stated: two calls with different mount points write nothing into
\* a page element they share; here, never both into the .legend element.
C5_NoSharedElementWritten ==
    \A i \in ChartIds, j \in ChartIds :
        (i # j /\ charts[i].chartLocation # charts[j].chartLocation) =>
            ~(LegendOf(i) # <<>> /\ LegendOf(j) # <<>>)

\* The numbers the cells of column col convert to, in row order.
NumericColumn(rows, col) == [n \in 1..Len(rows) |-> ToNumber(rows[n][col])]

RatLeq(a, b) == a.num * b.den <= b.num * a.den
RatAdd(a, b) == Rat(a.num * b.den + b.num * a.den, a.den * b.den)

\* C6 as stated: simpleLineChart builds the x domain [min, max], the y
\* domain [0, max] and the points of its line from the numeric conversions
\* of the columns xAxisLabel and yAxisLabel of the file.
C6_NumericValuesUsed ==
    \A i \in ChartIds :
        Is(i, "simple", "done") =>
            LET c == charts[i]
                xs == NumericColumn(csv[c.source].rows, c.xAxisLabel)
                ys == NumericColumn(csv[c.source].rows, c.yAxisLabel)
            IN /\ c.xScale = ScaleLinear(D3Extent(xs), <<0, c.width>>)
               /\ c.yScale = ScaleLinear(<<Num(0), D3Max(ys)>>, <<c.height, 0>>)
               /\ c.paths[1].d =
                     [n \in 1..Len(xs) |->
                         [x |-> ScaleApply(c.xScale, xs[n], d3version),
                          y |-> ScaleApply(c.yScale, ys[n], d3version)]]

\* C7 as stated: every slice and every legend entry of simplePieChart
\* carries the numeric conversion of the yAxisLabel cell of its row as
\* value and that of the xAxisLabel cell of its row as category key.
C7_SliceCarriesFileColumns ==
    \A i \in ChartIds :
        Is(i, "pie", "done") =>
            LET c == charts[i]
                xs == NumericColumn(csv[c.source].rows, c.xAxisLabel)
                ys == NumericColumn(csv[c.source].rows, c.yAxisLabel)
            IN /\ Len(c.arcs) = Len(xs)
               /\ Len(LegendOf(i)) = Len(xs)
               /\ \A n \in 1..Len(xs) :
                     /\ c.arcs[n].value = ys[n]
                     /\ c.arcs[n].text = <<xs[n], ys[n]>>
                     /\ LegendOf(i)[n].text = <<xs[n], ys[n]>>

\* The typed record the chart of call c makes of row n of its file.
Typed(c, n) ==
    IF c.kind = "multi" THEN CoerceMulti(csv[c.source].rows[n])
    ELSE CoerceLabels(csv[c.source].rows[n], c.xAxisLabel, c.yAxisLabel)

\* The path of call c through its typed records in row order, reading the
\* key under xf and the value under yf.
InRowOrder(c, d, xf, yf) ==
    /\ Len(d) = Len(csv[c.source].rows)
    /\ \A n \in 1..Len(d) :
          d[n] = [x |-> ScaleApply(c.xScale, Typed(c, n)[xf], d3version),
                  y |-> ScaleApply(c.yScale, Typed(c, n)[yf], d3version)]

\* C8: the path of a line chart has one point per CSV row, the n-th being
\* (xScale(key of row n), yScale(value of row n)): row order, nothing
\* sorted, nothing dropped.  On week,amount = 1,10 / 2,30 / 3,20 the
\* single line chart has the y domain [0, 30] and the points of the rows
\* 1, 2, 3 in that order.
C8_PathInRowOrder ==
    \A i \in ChartIds :
        LET c == charts[i]
        IN /\ Is(i, "simple", "done") =>
                /\ InRowOrder(c, c.paths[1].d, c.xAxisLabel, c.yAxisLabel)
                /\ (csv = DefaultCsv /\ c.xAxisLabel = "week"
                                     /\ c.yAxisLabel = "amount") =>
                      /\ c.yScale.d0 = Num(0)
                      /\ c.yScale.d1 = Num(30)
                      /\ c.paths[1].d =
                           <<[x |-> Rat(0, 1),
                              y |-> Rat(2 * ChartHeight, 3)],
                             [x |-> Rat(ChartWidth, 2),
                              y |-> Rat(0, 1)],
                             [x |-> Rat(ChartWidth, 1),
                              y |-> Rat(ChartHeight, 3)]>>
           /\ Is(i, "multi", "done") =>
                \A n \in 1..3 :
                    c.paths[n].display = "" =>
                        InRowOrder(c, c.paths[n].d, "week", SeriesKeys[n])

\* A single line chart drawn from two rows whose keys descend: the path
\* goes from the right to the left.
C8_Witness ==
    \E i \in ChartIds :
        /\ Is(i, "simple", "done")
        /\ charts[i].xAxisLabel # charts[i].yAxisLabel
        /\ Len(charts[i].paths[1].d) = 2
        /\ charts[i].paths[1].d[1].x = Rat(ChartWidth, 1)
        /\ charts[i].paths[1].d[2].x = Rat(0, 1)
        /\ charts[i].paths[1].d[1].y # charts[i].paths[1].d[2].y

LineChartWithData(i) ==
    /\ charts[i].kind \in {"simple", "multi"}
    /\ charts[i].status = "done"
    /\ charts[i].data # <<>>

\* C9 as stated: for every non-empty set of records, all-zero included,
\* the y scale of a line chart maps the upper bound of its domain [0, max]
\* to pixel 0 and the value 0 to pixel height.
C9_MaxToZeroAlways ==
    \A i \in ChartIds :
        LineChartWithData(i) =>
            LET y == charts[i].yScale
            IN /\ ScaleApply(y, y.d1, d3version) = Rat(0, 1)
               /\ ScaleApply(y, Num(0), d3version) = Rat(charts[i].height, 1)

\* The greatest amount of the three series over all rows of a file.
MaxAmount(rows) ==
    CHOOSE m \in {ToNumber(rows[n][k]).n : n \in 1..Len(rows), k \in Series} :
        \A n \in 1..Len(rows), k \in Series : ToNumber(rows[n][k]).n <= m

\* C9 amended: the y scale of a line chart over a non-empty set of records
\* has the domain [0, max] (max the greatest value the chart observes; in
\* multipleLineChart the greatest amount of the file) and the range
\* [height, 0]; when max > 0 it maps max to pixel 0 and 0 to pixel height.
\* When every value is 0 the domain is [0, 0] and 0 has one pixel only:
\* height with d3 4, height / 2 with d3 7.
C9_MaxToZeroWhenPositive ==
    \A i \in ChartIds :
        LineChartWithData(i) =>
            LET y == charts[i].yScale
                h == charts[i].height
            IN /\ y.d0 = Num(0)
               /\ y.d1.t = "num"
               /\ y.r0 = h
               /\ y.r1 = 0
               /\ charts[i].kind = "multi" =>
                     y.d1.n = MaxAmount(csv[charts[i].source].rows)
               /\ y.d1.n > 0 =>
                     /\ ScaleApply(y, y.d1, d3version) = Rat(0, 1)
                     /\ ScaleApply(y, Num(0), d3version) = Rat(h, 1)
               /\ y.d1.n = 0 =>
                     ScaleApply(y, Num(0), d3version) =
                        IF d3version = 4 THEN Rat(h, 1) ELSE Rat(h, 2)

\* A loaded multiple line chart whose greatest amount is 10, with a row
\* of zeros.
C9_Witness ==
    \E i \in ChartIds :
        /\ Is(i, "multi", "done")
        /\ Len(charts[i].data) = 2
        /\ charts[i].yScale.d1 = Num(10)
        /\ \A k \in Series : charts[i].data[1][k] = Num(0)

\* The sum of the angular spans of the arcs of call c, in turns.
RECURSIVE SpanSum(_)
SpanSum(arcs) ==
    IF arcs = <<>> THEN Rat(0, 1)
    ELSE LET a == arcs[Len(arcs)]
         IN RatAdd(SpanSum(SubSeq(arcs, 1, Len(arcs) - 1)),
                   RatAdd(a.endAngle,
                          [num |-> -a.startAngle.num, den |-> a.startAngle.den]))

\* No two arcs share more than a border.
Disjoint(arcs) ==
    \A m \in 1..Len(arcs), n \in 1..Len(arcs) :
        m # n => \/ RatLeq(arcs[m].endAngle, arcs[n].startAngle)
                 \/ RatLeq(arcs[n].endAngle, arcs[m].startAngle)

\* C10 as stated: for every sequence of records with non-negative amounts,
\* all-zero included, the spans of the slices of simplePieChart do not
\* overlap and sum to one full turn.
C10_FullTurnAlways ==
    \A i \in ChartIds :
        (Is(i, "pie", "done") /\ charts[i].data # <<>>) =>
            /\ Disjoint(charts[i].arcs)
            /\ SpanSum(charts[i].arcs) = Rat(1, 1)

\* C10 amended: when at least one amount is positive the spans of the
\* slices lie in [0, 1 turn], do not overlap and sum to one full turn;
\* when no amount is positive (every amount 0, or no record) every slice
\* has the span 0 at angle 0 and the sum is 0.
C10_FullTurnWhenPositive ==
    \A i \in ChartIds :
        Is(i, "pie", "done") =>
            LET arcs == charts[i].arcs
            IN IF \E n \in 1..Len(arcs) : arcs[n].value.n > 0
               THEN /\ Disjoint(arcs)
                    /\ SpanSum(arcs) = Rat(1, 1)
                    /\ \A n \in 1..Len(arcs) :
                          /\ RatLeq(Rat(0, 1), arcs[n].startAngle)
                          /\ RatLeq(arcs[n].startAngle, arcs[n].endAngle)
                          /\ RatLeq(arcs[n].endAngle, Rat(1, 1))
               ELSE \A n \in 1..Len(arcs) :
                       /\ arcs[n].startAngle = Rat(0, 1)
                       /\ arcs[n].endAngle = Rat(0, 1)

\* A pie of two slices of different positive values, the smaller first in
\* the file.
C10_Witness ==
    \E i \in ChartIds :
        /\ Is(i, "pie", "done")
        /\ Len(charts[i].arcs) = 2
        /\ charts[i].arcs[1].value = Num(9)
        /\ charts[i].arcs[2].value = Num(10)

SmallestOf(S) ==
    IF S = {} THEN Undefined ELSE Num(CHOOSE m \in S : \A v \in S : m <= v)

LargestOf(S) ==
    IF S = {} THEN Undefined ELSE Num(CHOOSE m \in S : \A v \in S : v <= m)

\* The numbers the week cells of a file stand for.
AllWeeks(rows) == {ToNumber(rows[n]["week"]).n : n \in 1..Len(rows)}

\* The numbers the amount1, amount2 and amount3 cells of a file stand for.
AllAmounts(rows) ==
    {ToNumber(rows[n][k]).n : n \in 1..Len(rows), k \in Series}

\* C11: a drawn multipleLineChart has the x domain [least week, greatest
\* week] and the y domain [0, greatest amount1/amount2/amount3] over all
\* rows of the file whatever the checkboxes say, with its axes on these
\* scales; and a change event of a checkbox leaves the scales, the axes,
\* the data, the mounts, the legend and the listeners as they were, and
\* alters nothing of a drawn chart but the display and the d of its
\* series paths.
C11_ScalesBuiltOnceFromAllRows ==
    /\ [](\A i \in ChartIds :
            Is(i, "multi", "done") =>
                LET c == charts[i]
                    rows == csv[c.source].rows
                IN /\ c.xScale =
                        ScaleLinear(<<SmallestOf(AllWeeks(rows)),
                                      LargestOf(AllWeeks(rows))>>,
                                    <<0, c.width>>)
                   /\ c.yScale =
                        ScaleLinear(<<Num(0), LargestOf(AllAmounts(rows))>>,
                                    <<c.height, 0>>)
                   /\ c.xAxis = Axis(c.xScale, Len(rows))
                   /\ c.yAxis = Axis(c.yScale, 0))
    /\ [][checked' # checked =>
            /\ mounts' = mounts /\ legend' = legend /\ listeners' = listeners
            /\ Len(charts') = Len(charts)
            /\ \A i \in ChartIds :
                  Is(i, "multi", "done") =>
                     charts'[i] =
                        [charts[i] EXCEPT !.paths =
                            [p \in 1..3 |->
                                [charts[i].paths[p] EXCEPT
                                    !.display = charts'[i].paths[p].display,
                                    !.d = charts'[i].paths[p].d]]]]_vars

\* A drawn chart of two rows of different weeks whose greatest amount is
\* in amount2 alone, with amount2 drawn and then unchecked and amount1
\* shown.
C11_Witness ==
    \E i \in ChartIds :
        /\ Is(i, "multi", "done")
        /\ Len(charts[i].data) = 2
        /\ charts[i].data[1]["week"] # charts[i].data[2]["week"]
        /\ \E n \in 1..2 : charts[i].data[n]["amount2"] = Num(10)
        /\ \A n \in 1..2 : /\ charts[i].data[n]["amount1"] = Num(0)
                            /\ charts[i].data[n]["amount3"] = Num(0)
        /\ ~checked["amount2"]
        /\ charts[i].paths[2].display = "none"
        /\ Len(charts[i].paths[2].d) = 2
        /\ charts[i].paths[1].display = ""
        /\ charts[i].yScale.d0 = Num(0)
        /\ charts[i].yScale.d1 = Num(10)

\* The sum of the values of the slices.
RECURSIVE ValueSum(_)
ValueSum(arcs) ==
    IF arcs = <<>> THEN 0
    ELSE arcs[Len(arcs)].value.n + ValueSum(SubSeq(arcs, 1, Len(arcs) - 1))

\* Whether slice n spans value / sum(values) of the turn (nothing when
\* the sum is 0).
SpanIsShare(arcs, n) ==
    arcs[n].endAngle =
        IF ValueSum(arcs) = 0 THEN arcs[n].startAngle
        ELSE RatAdd(arcs[n].startAngle, Rat(arcs[n].value.n, ValueSum(arcs)))

\* C12 as stated: the slice of the first row of the file starts at angle
\* 0, the slice of every later row starts where the slice of the row
\* before it ends, and every slice spans value / sum(values) of the turn.
C12_SpansInRowOrder ==
    \A i \in ChartIds :
        Is(i, "pie", "done") =>
            LET arcs == charts[i].arcs
            IN \A n \in 1..Len(arcs) :
                  /\ arcs[n].startAngle =
                        IF n = 1 THEN Rat(0, 1) ELSE arcs[n - 1].endAngle
                  /\ SpanIsShare(arcs, n)

\* C12, amended: the slices are placed from angle 0 in the order of
\* descending value, rows of equal value in the order of the file: the
\* index of a slice is its place in that order, the slice of index 0
\* starts at angle 0, every other slice starts where the slice of the
\* index before its own ends, and every slice spans value / sum(values)
\* of the turn (nothing when the sum is 0).
C12_SpansInDescendingValueOrder ==
    \A i \in ChartIds :
        Is(i, "pie", "done") =>
            LET arcs == charts[i].arcs
                N == Len(arcs)
            IN /\ {arcs[n].index : n \in 1..N} = 0..(N - 1)
               /\ \A m, n \in 1..N :
                     arcs[m].index < arcs[n].index <=>
                        \/ arcs[m].value.n > arcs[n].value.n
                        \/ arcs[m].value.n = arcs[n].value.n /\ m < n
               /\ \A n \in 1..N :
                     /\ arcs[n].index = 0 => arcs[n].startAngle = Rat(0, 1)
                     /\ \A m \in 1..N :
                           arcs[n].index = arcs[m].index + 1 =>
                              arcs[n].startAngle = arcs[m].endAngle
                     /\ SpanIsShare(arcs, n)

\* A pie of two rows, the smaller value first in the file: the slice of
\* the second row starts at angle 0 and the slice of the first row starts
\* where it ends.
C12_Witness ==
    \E i \in ChartIds :
        /\ Is(i, "pie", "done")
        /\ Len(charts[i].arcs) = 2
        /\ charts[i].arcs[1].value = Num(9)
        /\ charts[i].arcs[2].value = Num(10)
        /\ charts[i].arcs[2].startAngle = Rat(0, 1)
        /\ charts[i].arcs[2].endAngle = Rat(10, 19)
        /\ charts[i].arcs[1].startAngle = Rat(10, 19)
        /\ charts[i].arcs[1].endAngle = Rat(1, 1)

=============================================================================
